---------------------------- MODULE Spec2Model ----------------------------
(***************************************************************************)
(* A model of the bazelrc parser (src/src/parser.rs) and of the flag       *)
(* index (src/src/bazel_flags.rs).                                         *)
(*                                                                         *)
(* The parser is a chumsky combinator grammar: `or` tries its left side    *)
(* first, `repeated` is greedy and never gives back what it took, `or_not` *)
(* rewinds on failure.  Every combinator of the grammar is an operator     *)
(* here that takes the source text and an offset and returns a record      *)
(* [ok, pos, out]: whether it matched, the offset after the match and the  *)
(* decoded output.  Texts are sequences of one-character strings and       *)
(* offsets count characters from 0, as the spans of the parser do (its     *)
(* input stream is `source.chars().enumerate()`).                          *)
(*                                                                         *)
(* Line.span (parser.rs:14) is read by no property below and is not part   *)
(* of the Line record of the model.                                        *)
(***************************************************************************)
EXTENDS Integers, Sequences, FiniteSets, TLC

VARIABLES
    source,                 \* the text handed to parser().parse
    pos,                    \* offset of the next unread character
    lines,                  \* the Vec<Line> collected by separated_by so far
    pc,                     \* parse: "line" | "sep" | "done"
                            \* index: "from_flags" | "index" | "answer"
    result,                 \* "pending" | "Ok" | "Err"
    flags,                  \* BazelFlags.flags
    flags_by_commands,      \* BazelFlags.flags_by_commands
    flags_by_name,          \* BazelFlags.flags_by_name
    flags_by_abbreviation,  \* BazelFlags.flags_by_abbreviation
    query,                  \* the last argument of get_by_invocation
    found                   \* what that call returned

vars == <<source, pos, lines, pc, result, flags, flags_by_commands,
          flags_by_name, flags_by_abbreviation, query, found>>

parserVars == <<source, pos, lines, pc, result>>
flagVars == <<flags, flags_by_commands, flags_by_name, flags_by_abbreviation,
              query, found>>

---------------------------------------------------------------------------
(* Characters *)

LF == "\n"
CR == "\r"
TAB == "\t"
SP == " "
BS == "\\"
DQ == "\""
SQ == "'"
HASH == "#"

\* parser.rs:42
specialchars == {SP, TAB, CR, LF, DQ, SQ, HASH}

\* The characters for which char::is_alphabetic holds, among those the
\* inputs below are made of.
Letters == {"a", "b", "c", "d", "e", "f", "g", "h", "i", "j", "k", "l", "m",
            "n", "o", "p", "t", "u", "x", "y"}

is_alphabetic(c) == c \in Letters

CharAt(src, p) == src[p + 1]

AtEnd(src, p) == p >= Len(src)

Slice(src, from, to) == SubSeq(src, from + 1, to)

Fail == [ok |-> FALSE, pos |-> 0, out |-> <<>>]

Match(p, out) == [ok |-> TRUE, pos |-> p, out |-> out]

---------------------------------------------------------------------------
(* The combinators of chumsky the grammar is written with.  A parser       *)
(* applied at an offset is its result there; an Option output is <<>>      *)
(* (None) or a sequence of one element (Some).                             *)

\* a.or(b): the result of a, or that of b where a fails.
Or(a, b) == IF a.ok THEN a ELSE b

\* a.then(..) and its kin: what B makes of the result of a, where a matches.
Then(a, B(_)) == IF a.ok THEN B(a) ELSE Fail

\* a.or_not() at offset p: None with nothing read where a fails.
OrNot(a, p) == IF a.ok THEN a ELSE Match(p, <<>>)

\* a.to(out)
To(a, out) == IF a.ok THEN Match(a.pos, out) ELSE Fail

\* a.rewind().ignored() at offset p
Rewind(a, p) == IF a.ok THEN Match(p, <<>>) ELSE Fail

\* just(c)
just(src, p, c) ==
    IF ~AtEnd(src, p) /\ CharAt(src, p) = c THEN Match(p + 1, <<c>>) ELSE Fail

\* one_of(chars)
one_of(src, p, chars) ==
    IF ~AtEnd(src, p) /\ CharAt(src, p) \in chars
    THEN Match(p + 1, <<CharAt(src, p)>>)
    ELSE Fail

\* one_of(chars).not(): the next character, unless it is one of chars
not_one_of(src, p, chars) ==
    IF ~AtEnd(src, p) /\ CharAt(src, p) \notin chars
    THEN Match(p + 1, <<CharAt(src, p)>>)
    ELSE Fail

\* end()
end_of_input(src, p) == IF AtEnd(src, p) THEN Match(p, <<>>) ELSE Fail

---------------------------------------------------------------------------
(* The token grammar, parser.rs:44-85 *)

\* All characters except for separators and `\` are part of tokens.
raw_token_char(src, p) == not_one_of(src, p, specialchars \cup {BS})

\* escaped_char with the backslash left in the token.
escaped_char_keeps_backslash(src, p) ==
    Then(just(src, p, BS),
         LAMBDA b : To(not_one_of(src, b.pos, {LF, CR}), <<BS, CharAt(src, b.pos)>>))

\* A `\` followed by any character but a line break: that character.
escaped_char(src, p) ==
    Then(just(src, p, BS), LAMBDA b : not_one_of(src, b.pos, {LF, CR}))

\* newline that also takes a carriage return on its own.
newline_or_lone_cr(src, p) ==
    Or(just(src, p, LF),
       Then(just(src, p, CR), LAMBDA r : To(OrNot(just(src, r.pos, LF), r.pos), <<LF>>)))

\* Either a Unix or a Windows newline; its output is '\n' in both cases.
newline(src, p) ==
    Or(just(src, p, LF), Then(just(src, p, CR), LAMBDA r : just(src, r.pos, LF)))

escaped_newline(src, p) ==
    Then(just(src, p, BS), LAMBDA b : newline(src, b.pos))

\* Some(c) is <<c>> and None is <<>>: flatten and filter_map of mixed_token
\* are then the concatenation of the outputs.
token_char(src, p) ==
    Or(Or(raw_token_char(src, p), escaped_char(src, p)),
       To(escaped_newline(src, p), <<>>))

\* token_char.or(one_of(literals)): a character of a quoted region.
quoted_char(src, p, literals) ==
    Or(token_char(src, p), one_of(src, p, literals))

\* quoted_char(literals).repeated(): greedy, stops at the first failure.
\* token_char.repeated() is the case literals = {}.
RECURSIVE quoted_chars(_, _, _, _)
quoted_chars(src, p, literals, acc) ==
    Or(Then(quoted_char(src, p, literals),
            LAMBDA c : quoted_chars(src, c.pos, literals, acc \o c.out)),
       Match(p, acc))

\* token_char.repeated().at_least(1)
unquoted_token_raw(src, p) ==
    Then(token_char(src, p), LAMBDA c : quoted_chars(src, c.pos, {}, c.out))

\* quoted_with that takes the end of the input for the closing quote.
quoted_with_unclosed(src, p, q, literals) ==
    Then(just(src, p, q),
         LAMBDA o : Then(quoted_chars(src, o.pos, literals, <<>>),
         LAMBDA body : Then(Or(just(src, body.pos, q), end_of_input(src, body.pos)),
         LAMBDA c : Match(c.pos, body.out))))

\* just(q).ignore_then(quoted_char.repeated()).then_ignore(just(q))
quoted_with(src, p, q, literals) ==
    Then(just(src, p, q),
         LAMBDA o : Then(quoted_chars(src, o.pos, literals, <<>>),
         LAMBDA body : Then(just(src, body.pos, q),
         LAMBDA c : Match(c.pos, body.out))))

dquoted_token_raw(src, p) == quoted_with(src, p, DQ, {SP, TAB, SQ, HASH})

\* squoted_token_raw with the line feed among the literal characters.
squoted_token_raw_multiline(src, p) ==
    quoted_with(src, p, SQ, {SP, TAB, DQ, HASH, LF})

squoted_token_raw(src, p) == quoted_with(src, p, SQ, {SP, TAB, DQ, HASH})

quoted_token_raw(src, p) ==
    Or(dquoted_token_raw(src, p), squoted_token_raw(src, p))

\* unquoted_token_raw.or(quoted_token_raw)
token_part(src, p) ==
    Or(unquoted_token_raw(src, p), quoted_token_raw(src, p))

RECURSIVE token_parts(_, _, _)
token_parts(src, p, acc) ==
    Or(Then(token_part(src, p), LAMBDA t : token_parts(src, t.pos, acc \o t.out)),
       Match(p, acc))

\* Mixed tokens, consisting of both quoted and unquoted parts.
mixed_token(src, p) ==
    Then(token_part(src, p), LAMBDA t : token_parts(src, t.pos, t.out))

---------------------------------------------------------------------------
(* Separators, comments, flags and the command, parser.rs:87-123 *)

RECURSIVE skip_blanks(_, _)
skip_blanks(src, p) ==
    IF ~AtEnd(src, p) /\ CharAt(src, p) \in {SP, TAB}
    THEN skip_blanks(src, p + 1)
    ELSE p

\* one_of(" \t").repeated().at_least(1).ignored()
separator(src, p) ==
    IF skip_blanks(src, p) > p THEN Match(skip_blanks(src, p), <<>>) ELSE Fail

\* A decoded string with its span.
Spanned(text, start, end) == [text |-> text, start |-> start, end |-> end]

\* escaped_newline.or(one_of("\n\r").not()).repeated()
RECURSIVE comment_chars(_, _, _)
comment_chars(src, p, acc) ==
    Or(Then(Or(escaped_newline(src, p), not_one_of(src, p, {LF, CR})),
            LAMBDA c : comment_chars(src, c.pos, acc \o c.out)),
       Match(p, acc))

\* comment with the continuations joined without a character.
comment_joined(src, p) ==
    Then(just(src, p, HASH),
         LAMBDA h : Then(comment_chars(src, h.pos, <<>>),
         LAMBDA body : Match(body.pos,
                             <<Spanned(SelectSeq(body.out, LAMBDA c : c # LF),
                                       p, body.pos)>>)))

\* Comments go until the end of line; the span starts at the '#'.
comment(src, p) ==
    Then(just(src, p, HASH),
         LAMBDA h : Then(comment_chars(src, h.pos, <<>>),
         LAMBDA body : Match(body.pos, <<Spanned(body.out, p, body.pos)>>)))

\* mixed_token.map_with_span(|v, span| (v, span))
spanned_token(src, p) ==
    Then(mixed_token(src, p), LAMBDA t : Match(t.pos, <<Spanned(t.out, p, t.pos)>>))

\* The (separator item)* loop of separated_by: `p` is the offset after the
\* last item, which is where the loop rewinds to when a separator is not
\* followed by an item.
RECURSIVE more_flags(_, _, _)
more_flags(src, p, acc) ==
    Or(Then(separator(src, p),
            LAMBDA s : Then(spanned_token(src, s.pos),
            LAMBDA t : more_flags(src, t.pos, acc \o t.out))),
       Match(p, acc))

\* flags_list with the span of the first flag taken from before the leading
\* separator.
flags_list_leading_span(src, p) ==
    Then(OrNot(separator(src, p), p),
         LAMBDA lead :
             Or(Then(mixed_token(src, lead.pos),
                     LAMBDA first : Then(more_flags(src, first.pos,
                                                    <<Spanned(first.out, p, first.pos)>>),
                     LAMBDA rest : Match(OrNot(separator(src, rest.pos), rest.pos).pos,
                                         rest.out))),
                Match(lead.pos, <<>>)))

\* mixed_token.map_with_span().separated_by(separator).allow_leading().allow_trailing()
flags_list(src, p) ==
    Then(OrNot(separator(src, p), p),
         LAMBDA lead :
             Or(Then(spanned_token(src, lead.pos),
                     LAMBDA first : Then(more_flags(src, first.pos, first.out),
                     LAMBDA rest : Match(OrNot(separator(src, rest.pos), rest.pos).pos,
                                         rest.out))),
                Match(lead.pos, <<>>)))

RECURSIVE skip_alphabetic(_, _)
skip_alphabetic(src, p) ==
    IF ~AtEnd(src, p) /\ is_alphabetic(CharAt(src, p))
    THEN skip_alphabetic(src, p + 1)
    ELSE p

\* filter(is_alphabetic).repeated().at_least(1).collect().map_with_span()
command_name(src, p) ==
    IF skip_alphabetic(src, p) > p
    THEN Match(skip_alphabetic(src, p),
               <<Spanned(Slice(src, p, skip_alphabetic(src, p)), p,
                         skip_alphabetic(src, p))>>)
    ELSE Fail

\* config_part with the span taken of the token alone, behind the ':'.
config_part_token_span(src, p) ==
    Then(just(src, p, ":"),
         LAMBDA c : Then(mixed_token(src, c.pos),
         LAMBDA t : Match(t.pos, <<Spanned(t.out, c.pos, t.pos)>>)))

\* config_part with the ':' kept in the text (then for ignore_then).
config_part_keeps_colon(src, p) ==
    Then(just(src, p, ":"),
         LAMBDA c : Then(mixed_token(src, c.pos),
         LAMBDA t : Match(t.pos, <<Spanned(c.out \o t.out, p, t.pos)>>)))

\* just(':').ignore_then(mixed_token).map_with_span(): the span starts at ':'
config_part(src, p) ==
    Then(just(src, p, ":"),
         LAMBDA c : Then(mixed_token(src, c.pos),
         LAMBDA t : Match(t.pos, <<Spanned(t.out, p, t.pos)>>)))

\* separator.or(newline.rewind().ignored()).or(end())
specifier_end(src, p) ==
    Or(Or(separator(src, p), Rewind(newline(src, p), p)), end_of_input(src, p))

\* `command` or `command:config`, followed by a blank, a newline or the end.
\* out is <<command, config>>, each an Option.
command_specifier(src, p) ==
    Then(OrNot(separator(src, p), p),
         LAMBDA lead : Then(command_name(src, lead.pos),
         LAMBDA name : Then(OrNot(config_part(src, name.pos), name.pos),
         LAMBDA cfg  : Then(specifier_end(src, cfg.pos),
         LAMBDA e    : Match(e.pos, <<name.out, cfg.out>>)))))

\* command_specifier.or_not().then(flags_list).then(comment.or_not()) and the
\* Line made of them, parser.rs:126-140; unzip of None gives (None, None).
line_content(src, p) ==
    Then(OrNot(command_specifier(src, p), p),
         LAMBDA cs : Then(flags_list(src, cs.pos),
         LAMBDA fl : Then(OrNot(comment(src, fl.pos), fl.pos),
         LAMBDA cm : Match(cm.pos,
                           [command |-> IF cs.out = <<>> THEN <<>> ELSE cs.out[1],
                            config  |-> IF cs.out = <<>> THEN <<>> ELSE cs.out[2],
                            flags   |-> fl.out,
                            comment |-> cm.out]))))

---------------------------------------------------------------------------
(* The inputs: the texts of the tests of parser.rs and of its header       *)
(* comment, and every text of at most MaxLen characters over Alphabet.     *)

\* parser.rs:157: 'cmd\n\r\n\ncmd -x \n'
T_newlines ==
    <<"c", "m", "d", LF, CR, LF, LF, "c", "m", "d", SP, "-", "x", SP, LF>>

\* parser.rs:182: 'cmd'
T_cmd ==
    <<"c", "m", "d">>

\* parser.rs:191: 'cmd:my-config'
T_cmd_config ==
    <<"c", "m", "d", ":", "m", "y", "-", "c", "o", "n", "f", "i", "g">>

\* parser.rs:201: "cmd:my-\\ con'f ig'"
T_cmd_config_escaped ==
    <<"c", "m", "d", ":", "m", "y", "-", BS, SP, "c", "o", "n", SQ, "f", SP,
      "i", "g", SQ>>

\* parser.rs:211: 'build:opt --x=y'
T_build_opt ==
    <<"b", "u", "i", "l", "d", ":", "o", "p", "t", SP, "-", "-", "x", "=",
      "y">>

\* parser.rs:245: 'command a\\bc\\d'
T_flag_escapes ==
    <<"c", "o", "m", "m", "a", "n", "d", SP, "a", BS, "b", "c", BS, "d">>

\* parser.rs:247: 'command a\\\\b'
T_flag_backslash ==
    <<"c", "o", "m", "m", "a", "n", "d", SP, "a", BS, BS, "b">>

\* parser.rs:249: 'command a\\ b\\\tc'
T_flag_blank_escapes ==
    <<"c", "o", "m", "m", "a", "n", "d", SP, "a", BS, SP, "b", BS, TAB, "c">>

\* parser.rs:252: 'command "a b\tc"'
T_flag_dquoted ==
    <<"c", "o", "m", "m", "a", "n", "d", SP, DQ, "a", SP, "b", TAB, "c", DQ>>

\* parser.rs:254: "command 'a b\tc'"
T_flag_squoted ==
    <<"c", "o", "m", "m", "a", "n", "d", SP, SQ, "a", SP, "b", TAB, "c", SQ>>

\* parser.rs:256: 'command "a\\"b\'c"'
T_flag_dquoted_escape ==
    <<"c", "o", "m", "m", "a", "n", "d", SP, DQ, "a", BS, DQ, "b", SQ, "c",
      DQ>>

\* parser.rs:258: 'command \'a"b\\\'c\''
T_flag_squoted_escape ==
    <<"c", "o", "m", "m", "a", "n", "d", SP, SQ, "a", DQ, "b", BS, SQ, "c",
      SQ>>

\* parser.rs:261: 'command abc\' cd\t e\\\'\'fg"h i"j'
T_flag_mixed ==
    <<"c", "o", "m", "m", "a", "n", "d", SP, "a", "b", "c", SQ, SP, "c", "d",
      TAB, SP, "e", BS, SQ, SQ, "f", "g", DQ, "h", SP, "i", DQ, "j">>

\* parser.rs:275: 'command ab\t \t  c'
T_flag_blanks ==
    <<"c", "o", "m", "m", "a", "n", "d", SP, "a", "b", TAB, SP, TAB, SP, SP,
      "c">>

\* parser.rs:280: 'command "t 1" \'t 2\''
T_flag_two_quoted ==
    <<"c", "o", "m", "m", "a", "n", "d", SP, DQ, "t", SP, "1", DQ, SP, SQ,
      "t", SP, "2", SQ>>

\* parser.rs:285: 'command a\\\nbc'
T_flag_continued ==
    <<"c", "o", "m", "m", "a", "n", "d", SP, "a", BS, LF, "b", "c">>

\* parser.rs:287: "'my\ntoken'"
T_quote_bare_break ==
    <<SQ, "m", "y", LF, "t", "o", "k", "e", "n", SQ>>

\* parser.rs:289: "command 'my\\\ntoken'"
T_quote_escaped_break ==
    <<"c", "o", "m", "m", "a", "n", "d", SP, SQ, "m", "y", BS, LF, "t", "o",
      "k", "e", "n", SQ>>

\* parser.rs:292: "command 'a#c'"
T_flag_hash_quoted ==
    <<"c", "o", "m", "m", "a", "n", "d", SP, SQ, "a", HASH, "c", SQ>>

\* parser.rs:294: 'command a\\#c'
T_flag_hash_escaped ==
    <<"c", "o", "m", "m", "a", "n", "d", SP, "a", BS, HASH, "c">>

\* parser.rs:301: ' # my comment\n#2nd comment'
T_comments ==
    <<SP, HASH, SP, "m", "y", SP, "c", "o", "m", "m", "e", "n", "t", LF, HASH,
      "2", "n", "d", SP, "c", "o", "m", "m", "e", "n", "t">>

\* parser.rs:315: ' # my\\\nco\\mment'
T_comment_continued ==
    <<SP, HASH, SP, "m", "y", BS, LF, "c", "o", BS, "m", "m", "e", "n", "t">>

\* parser.rs:324: 'cmd flag#comment'
T_comment_in_token ==
    <<"c", "m", "d", SP, "f", "l", "a", "g", HASH, "c", "o", "m", "m", "e",
      "n", "t">>

\* parser.rs:23: 'b"uil"d\':o\'pt --"x"=\'y\''
T_exotic ==
    <<"b", DQ, "u", "i", "l", DQ, "d", SQ, ":", "o", SQ, "p", "t", SP, "-",
      "-", DQ, "x", DQ, "=", SQ, "y", SQ>>

TestInputs ==
    {T_newlines, T_cmd, T_cmd_config, T_cmd_config_escaped,
     T_build_opt, T_flag_escapes, T_flag_backslash, T_flag_blank_escapes,
     T_flag_dquoted, T_flag_squoted, T_flag_dquoted_escape, T_flag_squoted_escape,
     T_flag_mixed, T_flag_blanks, T_flag_two_quoted, T_flag_continued,
     T_quote_bare_break, T_quote_escaped_break, T_flag_hash_quoted, T_flag_hash_escaped,
     T_comments, T_comment_continued, T_comment_in_token, T_exotic}

MaxLen == 4

Alphabet == {"a", "-", "=", ":", SP, LF, CR, BS, SQ, DQ, HASH}

ShortInputs == UNION {[1..n -> Alphabet] : n \in 0..MaxLen}

Inputs == TestInputs \cup ShortInputs

---------------------------------------------------------------------------
(* parser().parse(source): line_content.separated_by(newline)              *)
(*                         .collect().then_ignore(end()), parser.rs:142-145 *)

\* What get_by_invocation gives: None, Some(&flag), or the panic of an unwrap.
None == [panicked |-> FALSE, flag |-> <<>>]

Some(f) == [panicked |-> FALSE, flag |-> <<f>>]

Panic == [panicked |-> TRUE, flag |-> <<>>]

\* No flag index is in use while a text is parsed.
FlagsIdle ==
    /\ flags = <<>>
    /\ flags_by_commands = <<>>
    /\ flags_by_name = <<>>
    /\ flags_by_abbreviation = <<>>
    /\ query = <<>>
    /\ found = None

Init ==
    /\ source \in Inputs
    /\ pos = 0
    /\ lines = <<>>
    /\ pc = "line"
    /\ result = "pending"
    /\ FlagsIdle

\* One item of separated_by: line_content matches every text (each of its
\* parts is optional), so the item never fails.
ParseLine ==
    /\ pc = "line"
    /\ LET l == line_content(source, pos)
       IN  /\ lines' = Append(lines, l.out)
           /\ pos' = l.pos
    /\ pc' = "sep"
    /\ UNCHANGED <<source, result>>
    /\ UNCHANGED flagVars

\* The delimiter of separated_by: a newline, then the next line.
ParseNewline ==
    /\ pc = "sep"
    /\ newline(source, pos).ok
    /\ pos' = newline(source, pos).pos
    /\ pc' = "line"
    /\ UNCHANGED <<source, lines, result>>
    /\ UNCHANGED flagVars

\* No further newline: then_ignore(end()).  Unless the whole text is read the
\* parse is Err(errors), and the lines collected so far are dropped with it.
Finish ==
    /\ pc = "sep"
    /\ ~newline(source, pos).ok
    /\ pc' = "done"
    /\ result' = IF AtEnd(source, pos) THEN "Ok" ELSE "Err"
    /\ lines' = IF AtEnd(source, pos) THEN lines ELSE <<>>
    /\ UNCHANGED <<source, pos>>
    /\ UNCHANGED flagVars

Next == ParseLine \/ ParseNewline \/ Finish

Spec == Init /\ [][Next]_vars

---------------------------------------------------------------------------
(* The flag index, bazel_flags.rs:63-111.  A HashMap is a function on its   *)
(* keys; a FlagInfo is the record of the fields the index reads.  Names    *)
(* and invocations are sequences of characters; an index i of the Rust     *)
(* code (from 0) is the flag flags[i + 1].                                 *)

MaxFlags == 2

MaxDashes == 3

FlagNames == {<<"n">>, <<"m">>, <<"-", "n">>, <<"n", "=">>}

FlagAbbreviations == {<<"a">>, <<"b">>}

FlagInfos ==
    [name : FlagNames,
     abbreviation : {<<>>} \cup {<<a>> : a \in FlagAbbreviations},
     commands : {<<"build">>, <<"build", "test">>}]

RECURSIVE Dashes(_)
Dashes(n) == IF n = 0 THEN <<>> ELSE <<"-">> \o Dashes(n - 1)

Invocations ==
    {Dashes(n) \o body \o suffix :
        n \in 0..MaxDashes,
        body \in FlagNames \cup FlagAbbreviations \cup {<<>>},
        suffix \in {<<>>, <<"=">>}}

\* HashMap::insert: a later insert under the same key replaces the earlier.
Insert(map, key, value) ==
    [k \in DOMAIN map \cup {key} |-> IF k = key THEN value ELSE map[k]]

\* flags_by_commands.entry(c).or_insert_with(Default::default).push(i),
\* for every c of f.commands in turn.
RECURSIVE push_commands(_, _, _)
push_commands(map, commands, i) ==
    IF commands = <<>> THEN map
    ELSE LET c    == Head(commands)
             list == IF c \in DOMAIN map THEN map[c] ELSE <<>>
         IN  push_commands(Insert(map, c, Append(list, i)), Tail(commands), i)

InitFlags ==
    /\ source = <<>>
    /\ pos = 0
    /\ lines = <<>>
    /\ result = "pending"
    /\ pc = "from_flags"
    /\ flags = <<>>
    /\ flags_by_commands = <<>>
    /\ flags_by_name = <<>>
    /\ flags_by_abbreviation = <<>>
    /\ query = <<>>
    /\ found = None

\* One turn of the loop of from_flags over the flag f at index i.
Register(f) ==
    /\ pc = "from_flags"
    /\ Len(flags) < MaxFlags
    /\ LET i == Len(flags)
       IN  /\ flags' = Append(flags, f)
           /\ flags_by_commands' = push_commands(flags_by_commands, f.commands, i)
           /\ flags_by_name' = Insert(flags_by_name, f.name, i)
           /\ flags_by_abbreviation' =
                  IF f.abbreviation # <<>>
                  THEN Insert(flags_by_abbreviation, f.abbreviation[1], i)
                  ELSE flags_by_abbreviation
    /\ UNCHANGED <<pc, query, found>>
    /\ UNCHANGED parserVars

\* from_flags returns the index.
Build ==
    /\ pc = "from_flags"
    /\ pc' = "index"
    /\ UNCHANGED <<flags, flags_by_commands, flags_by_name, flags_by_abbreviation,
                   query, found>>
    /\ UNCHANGED <<source, pos, lines, result>>

\* strip_suffix that strips nothing.
strip_suffix_nothing(s, c) == s

strip_suffix(s, c) ==
    IF Len(s) > 0 /\ s[Len(s)] = c THEN SubSeq(s, 1, Len(s) - 1) ELSE s

has_prefix(s, prefix) ==
    Len(s) >= Len(prefix) /\ SubSeq(s, 1, Len(prefix)) = prefix

drop_prefix(s, prefix) == SubSeq(s, Len(prefix) + 1, Len(s))

\* map.get(key).map(|i| self.flags.get(*i).unwrap()): an index outside the
\* list makes unwrap panic.
get_flag(map, key) ==
    IF key \notin DOMAIN map THEN None
    ELSE IF map[key] < Len(flags) THEN Some(flags[map[key] + 1])
    ELSE Panic

get_by_invocation(s) ==
    LET stripped == strip_suffix(s, "=")
    IN  IF has_prefix(stripped, <<"-", "-">>)
        THEN LET long_name == drop_prefix(stripped, <<"-", "-">>)
             IN  IF has_prefix(long_name, <<"-">>) THEN None
                 ELSE get_flag(flags_by_name, long_name)
        ELSE IF has_prefix(stripped, <<"-">>)
        THEN LET abbreviation == drop_prefix(stripped, <<"-">>)
             IN  IF has_prefix(abbreviation, <<"-">>) THEN None
                 ELSE get_flag(flags_by_abbreviation, abbreviation)
        ELSE None

\* A call of get_by_invocation.  It borrows the index (&self) and leaves it as
\* it was, so a behaviour makes one call on each index.
Lookup(s) ==
    /\ pc = "index"
    /\ query' = s
    /\ found' = get_by_invocation(s)
    /\ pc' = "answer"
    /\ UNCHANGED <<flags, flags_by_commands, flags_by_name, flags_by_abbreviation>>
    /\ UNCHANGED <<source, pos, lines, result>>

NextFlags ==
    \/ \E f \in FlagInfos : Register(f)
    \/ Build
    \/ \E s \in Invocations : Lookup(s)

SpecFlags == InitFlags /\ [][NextFlags]_vars

---------------------------------------------------------------------------
(* Reference definitions the properties are stated with.  They read the     *)
(* text as the lexical rules describe it, one character class at a time,   *)
(* and know nothing of the grammar above.                                   *)

Done == pc = "done"

Accepted == pc = "done" /\ result = "Ok"

\* Every decoded string of the output with the field it is stored in.
Pieces ==
    UNION {   {<<"command", l.command[k]>> : k \in DOMAIN l.command}
         \cup {<<"config", l.config[k]>> : k \in DOMAIN l.config}
         \cup {<<"flag", l.flags[k]>> : k \in DOMAIN l.flags}
         \cup {<<"comment", l.comment[k]>> : k \in DOMAIN l.comment}
          : l \in {lines[i] : i \in DOMAIN lines}}

PiecesOf(kind) == {x[2] : x \in {y \in Pieces : y[1] = kind}}

Raw(piece) == Slice(source, piece.start, piece.end)

StartsWith(text, c) == Len(text) > 0 /\ text[1] = c

Contains(text, c) == \E i \in DOMAIN text : text[i] = c

\* The length of the line terminator at index i of raw (1-based), 0 if none.
RefBreakLen(raw, i) ==
    IF i <= Len(raw) /\ raw[i] = LF THEN 1
    ELSE IF i < Len(raw) /\ raw[i] = CR /\ raw[i + 1] = LF THEN 2
    ELSE 0

\* The decode rules of a text token: a backslash and the terminator after it
\* vanish, a backslash before any other character is dropped and the
\* character kept, an unescaped quote opens or closes a quoted region and is
\* dropped (the other quote is literal inside), everything else is literal.
RECURSIVE RefDecodeFrom(_, _, _)
RefDecodeFrom(raw, i, quote) ==
    IF i > Len(raw) THEN <<>>
    ELSE IF raw[i] = BS
         THEN IF RefBreakLen(raw, i + 1) > 0
              THEN RefDecodeFrom(raw, i + 1 + RefBreakLen(raw, i + 1), quote)
              ELSE IF i < Len(raw)
                   THEN <<raw[i + 1]>> \o RefDecodeFrom(raw, i + 2, quote)
                   ELSE <<>>
    ELSE IF raw[i] \in {SQ, DQ} /\ quote = ""
         THEN RefDecodeFrom(raw, i + 1, raw[i])
    ELSE IF raw[i] = quote
         THEN RefDecodeFrom(raw, i + 1, "")
    ELSE <<raw[i]>> \o RefDecodeFrom(raw, i + 1, quote)

RefDecode(raw) == RefDecodeFrom(raw, 1, "")

\* The text of a comment from its raw text after the '#', with `glue` put in
\* for every backslash-terminator pair.
RECURSIVE RefCommentFrom(_, _, _)
RefCommentFrom(raw, i, glue) ==
    IF i > Len(raw) THEN <<>>
    ELSE IF raw[i] = BS /\ RefBreakLen(raw, i + 1) > 0
         THEN glue \o RefCommentFrom(raw, i + 1 + RefBreakLen(raw, i + 1), glue)
         ELSE <<raw[i]>> \o RefCommentFrom(raw, i + 1, glue)

\* One pass over the text with the mode "out" (outside quotes and comments),
\* "'" or "\"" (inside that quote) or "#" (inside a comment).  It counts the
\* unescaped line terminators (`after` is the offset behind the last one),
\* collects the offsets of the '#' that start a comment and the modes in which
\* a backslash-terminator pair was met, and names what is malformed.
RECURSIVE RefScanFrom(_, _, _, _)
RefScanFrom(src, i, mode, acc) ==
    IF i > Len(src)
    THEN IF mode \in {SQ, DQ}
         THEN [acc EXCEPT !.bad = @ \cup {"UnterminatedQuote"}]
         ELSE acc
    ELSE IF src[i] = BS /\ RefBreakLen(src, i + 1) > 0
         THEN RefScanFrom(src, i + 1 + RefBreakLen(src, i + 1), mode,
                          [acc EXCEPT !.joined = @ \cup {mode}])
    ELSE IF src[i] = BS /\ mode # HASH
         THEN IF i < Len(src) /\ src[i + 1] # CR
              THEN RefScanFrom(src, i + 2, mode, acc)
              ELSE [acc EXCEPT !.bad = @ \cup {"DanglingBackslash"}]
    ELSE IF src[i] \in {LF, CR}
         THEN IF mode \in {SQ, DQ}
              THEN [acc EXCEPT !.bad = @ \cup {"BareLineBreakInQuote"}]
              ELSE IF RefBreakLen(src, i) = 0
                   THEN [acc EXCEPT !.bad = @ \cup {"LoneCarriageReturn"}]
                   ELSE RefScanFrom(src, i + RefBreakLen(src, i), "out",
                                    [acc EXCEPT !.breaks = @ + 1,
                                                !.after = i - 1 + RefBreakLen(src, i)])
    ELSE IF mode = "out" /\ src[i] \in {SQ, DQ}
         THEN RefScanFrom(src, i + 1, src[i], acc)
    ELSE IF mode = src[i] /\ mode \in {SQ, DQ}
         THEN RefScanFrom(src, i + 1, "out", acc)
    ELSE IF mode = "out" /\ src[i] = HASH
         THEN RefScanFrom(src, i + 1, HASH, [acc EXCEPT !.hashes = @ \cup {i - 1}])
    ELSE RefScanFrom(src, i + 1, mode, acc)

RefScan(src) ==
    RefScanFrom(src, 1, "out",
                [breaks |-> 0, after |-> 0, hashes |-> {}, joined |-> {}, bad |-> {}])

Blank(c) == c \in {SP, TAB}

EmptyLine == [command |-> <<>>, config |-> <<>>, flags |-> <<>>, comment |-> <<>>]

SpanInSource(piece) ==
    0 <= piece.start /\ piece.start <= piece.end /\ piece.end <= Len(source)

---------------------------------------------------------------------------
(* Properties of the parser, checked under Spec *)

\* C1, as claimed: for every input the parse returns the line structure,
\* never an error in its place.
C1_ParseAlwaysReturnsLines == Done => result = "Ok"

\* C1, amended: the parse ends with either the line structure or the errors.
\* It is an error, with no line returned at all, exactly when the text has an
\* unterminated quote, a bare line terminator inside an open quote, a
\* carriage return without its line feed or a backslash with nothing to
\* escape; every other text gives the line structure.
C1_MalformedTextIsRejectedWhole ==
    Done => /\ result \in {"Ok", "Err"}
            /\ result = "Err" <=> RefScan(source).bad # {}
            /\ result = "Err" => lines = <<>>
            /\ result = "Ok" => Len(lines) >= 1

\* A well-formed first line followed by a quote that is never closed: the
\* parse is an error and the first line is not returned.
C1_Witness ==
    /\ Done
    /\ result = "Err"
    /\ RefScan(source).bad = {"UnterminatedQuote"}
    /\ RefScan(source).breaks >= 1
    /\ source[1] = "a"

\* The decode rules applied to the raw text of a piece of the given kind, as
\* the claim has them: a comment is its text after '#', continuations removed.
RefDecodeSlice(kind, raw) ==
    IF kind = "comment" THEN RefCommentFrom(raw, 2, <<>>) ELSE RefDecode(raw)

\* C2, as claimed: every span lies in the source and the decode rules applied
\* to the slice under it give back the decoded string stored with it.
C2_EverySliceDecodesToItsText ==
    Accepted => \A x \in Pieces :
                    /\ SpanInSource(x[2])
                    /\ RefDecodeSlice(x[1], Raw(x[2])) = x[2].text

\* C2, amended: every span lies in the source; the slice under a command or a
\* flag decodes to its text; the slice under a config starts with the ':'
\* separator and its remainder decodes to the config; the slice under a
\* comment starts with '#' and its remainder, with every backslash-terminator
\* pair replaced by one LF, is the comment.
C2_SlicesDecodeToTheirText ==
    Accepted =>
        /\ \A x \in Pieces : SpanInSource(x[2])
        /\ \A c \in PiecesOf("command") \cup PiecesOf("flag") :
               RefDecode(Raw(c)) = c.text
        /\ \A c \in PiecesOf("config") :
               /\ c.start < c.end
               /\ Raw(c)[1] = ":"
               /\ RefDecode(Tail(Raw(c))) = c.text
        /\ \A c \in PiecesOf("comment") :
               /\ c.start < c.end
               /\ Raw(c)[1] = HASH
               /\ RefCommentFrom(Raw(c), 2, <<LF>>) = c.text

\* A config whose raw text is longer than ':' and its decoded text: decoding
\* removed a quote or a backslash.
C2_Witness ==
    /\ Accepted
    /\ \E c \in PiecesOf("config") : Len(c.text) + 1 < c.end - c.start
    /\ PiecesOf("command") # {}

\* C3: an accepted text gives one Line more than it has unescaped line
\* terminators; the empty text gives one empty Line, and a text that ends with
\* a terminator gives a last Line that is empty.
C3_OneLinePerTerminatorPlusOne ==
    Accepted =>
        /\ Len(lines) = RefScan(source).breaks + 1
        /\ source = <<>> => lines = <<EmptyLine>>
        /\ (RefScan(source).breaks > 0 /\ RefScan(source).after = Len(source))
               => lines[Len(lines)] = EmptyLine

\* Three lines, the middle one blank, the last one empty after a trailing
\* terminator, and an escaped terminator that started no line.
C3_Witness ==
    /\ Accepted
    /\ Len(lines) = 3
    /\ lines[2] = EmptyLine
    /\ lines[3] = EmptyLine
    /\ RefScan(source).joined # {}

\* C4: the text of every flag and of every config is the reference decode of
\* its raw text, and fragments with no blank between them are one token: two
\* flags of a line are always separated by blanks alone.
C4_TokensDecodeAsTheReference ==
    Accepted =>
        /\ \A f \in PiecesOf("flag") : f.text = RefDecode(Raw(f))
        /\ \A c \in PiecesOf("config") :
               c.text = RefDecode(Slice(source, c.start + 1, c.end))
        /\ \A i \in DOMAIN lines : \A k \in DOMAIN lines[i].flags :
               k > 1 =>
                   LET a == lines[i].flags[k - 1]
                       b == lines[i].flags[k]
                   IN  /\ a.end < b.start
                       /\ \A j \in (a.end + 1)..b.start : Blank(source[j])

\* A flag made of an unquoted fragment followed by a quoted one.
C4_Witness ==
    /\ Accepted
    /\ \E f \in PiecesOf("flag") :
           /\ Raw(f)[1] \notin {SQ, DQ, BS}
           /\ Contains(Raw(f), SQ) \/ Contains(Raw(f), DQ)
           /\ Len(f.text) = Len(Raw(f)) - 2
           /\ Len(f.text) >= 2

\* C5, as claimed: a line whose first text token does not start with '-' has
\* that token as its command; so on a line without a command the first flag
\* starts with '-'.
C5_FirstTokenIsTheCommand ==
    Accepted =>
        \A i \in DOMAIN lines :
            (lines[i].command = <<>> /\ lines[i].flags # <<>>)
                => StartsWith(lines[i].flags[1].text, "-")

\* C6: on a line with a command and a config, the command's span ends where
\* the config's begins, at the ':' separator, and the config's text is the
\* decode of what follows that separator; a config never comes without a
\* command.  For 'cmd:my-config': 'cmd' at 0..3, 'my-config' at 3..13.
C6_CommandAndConfigAreAdjacent ==
    Accepted =>
        /\ \A i \in DOMAIN lines :
               lines[i].config # <<>> =>
                   /\ lines[i].command # <<>>
                   /\ LET cmd == lines[i].command[1]
                          cfg == lines[i].config[1]
                      IN  /\ cmd.start < cmd.end
                          /\ cmd.end = cfg.start
                          /\ cfg.start + 1 < cfg.end
                          /\ CharAt(source, cfg.start) = ":"
                          /\ cfg.text = RefDecode(Slice(source, cfg.start + 1, cfg.end))
                          /\ cmd.text = Slice(source, cmd.start, cmd.end)
        /\ source = T_cmd_config =>
               /\ lines[1].command = <<Spanned(<<"c", "m", "d">>, 0, 3)>>
               /\ lines[1].config =
                      <<Spanned(<<"m", "y", "-", "c", "o", "n", "f", "i", "g">>, 3, 13)>>

\* The text 'cmd:my-config' has been parsed.
C6_Witness ==
    /\ Accepted
    /\ source = T_cmd_config
    /\ lines[1].config # <<>>

\* C7, as claimed: a flag that starts with '-' is split at its first '=', so
\* no flag carries a name that still holds the '=' and the value.
C7_DashedFlagsAreSplit ==
    Accepted => \A f \in PiecesOf("flag") :
                    StartsWith(f.text, "-") => ~Contains(f.text, "=")

\* The offsets of the source under some command, config, flag or comment.
Covered == UNION {p.start..(p.end - 1) : p \in {x[2] : x \in Pieces}}

\* C7, amended: every text token after the command is one flag that is kept
\* whole, a single decoded string with the span of the whole token, dashed or
\* not and with or without '='.  No token is dropped: what lies under no span
\* is blanks and line terminators.  'build:opt --x=y' gives the one flag
\* '--x=y' at 10..15.
C7_FlagsAreKeptWhole ==
    Accepted =>
        /\ \A f \in PiecesOf("flag") :
               /\ f.start < f.end
               /\ f.text = RefDecode(Slice(source, f.start, f.end))
        /\ \A j \in 1..Len(source) :
               (j - 1) \notin Covered => source[j] \in {SP, TAB, LF, CR}
        /\ source = T_build_opt =>
               lines[1].flags = <<Spanned(<<"-", "-", "x", "=", "y">>, 10, 15)>>

\* A line with a command and a dashed flag that holds an '='.
C7_Witness ==
    /\ Accepted
    /\ \E i \in DOMAIN lines :
           /\ lines[i].command # <<>>
           /\ \E k \in DOMAIN lines[i].flags :
                  /\ StartsWith(lines[i].flags[k].text, "-")
                  /\ Contains(lines[i].flags[k].text, "=")

\* C8: a bare line terminator inside an open quote makes the parse an error,
\* for either quote and wherever the quote sits; a text whose only line
\* terminators inside quotes are escaped is accepted when nothing else is
\* malformed, and no flag and no config holds a terminator character.
C8_BareBreakInQuoteIsAnError ==
    Done =>
        /\ "BareLineBreakInQuote" \in RefScan(source).bad => result = "Err"
        /\ (RefScan(source).bad = {} /\ RefScan(source).joined \cap {SQ, DQ} # {})
               => result = "Ok"
        /\ \A t \in PiecesOf("flag") \cup PiecesOf("config") :
               ~Contains(t.text, LF) /\ ~Contains(t.text, CR)

\* A quote opened in the middle of a token and a bare terminator inside it.
C8_Witness ==
    /\ Done
    /\ result = "Err"
    /\ "BareLineBreakInQuote" \in RefScan(source).bad
    /\ source[1] \notin {SQ, DQ}
    /\ Contains(source, SQ) \/ Contains(source, DQ)

\* C9, as claimed: a backslash-terminator pair inside a comment puts no
\* character into the comment's text.
C9_ContinuationInsertsNothing ==
    Accepted => \A c \in PiecesOf("comment") :
                    c.text = RefCommentFrom(Raw(c), 2, <<>>)

\* The terminator character at offset j of the source is escaped.
EscapedBreakAt(j) ==
    \/ /\ CharAt(source, j) = LF
       /\ j >= 1
       /\ \/ CharAt(source, j - 1) = BS
          \/ j >= 2 /\ CharAt(source, j - 1) = CR /\ CharAt(source, j - 2) = BS
    \/ /\ CharAt(source, j) = CR
       /\ j >= 1
       /\ CharAt(source, j - 1) = BS
       /\ RefBreakLen(source, j + 1) > 0

\* C9, amended: the comments start exactly at the unescaped '#' outside
\* quotes, blank before them or not; a comment ends at the first unescaped
\* terminator, which is not part of its span, or at the end of the input; a
\* backslash-terminator pair inside it continues the comment and puts one LF
\* (the backslash dropped, CR-LF turned into LF) into its text.
C9_CommentsRunToTheLineEnd ==
    Accepted =>
        /\ {c.start : c \in PiecesOf("comment")} = RefScan(source).hashes
        /\ \A c \in PiecesOf("comment") :
               /\ CharAt(source, c.start) = HASH
               /\ c.end = Len(source) \/ RefBreakLen(source, c.end + 1) > 0
               /\ c.end < Len(source) => CharAt(source, c.end - 1) # BS
               /\ \A j \in (c.start + 1)..(c.end - 1) :
                      CharAt(source, j) \in {LF, CR} => EscapedBreakAt(j)
               /\ c.text = RefCommentFrom(Raw(c), 2, <<LF>>)

\* A comment that starts right behind a token and is continued on the next
\* physical line.
C9_Witness ==
    /\ Accepted
    /\ \E c \in PiecesOf("comment") :
           /\ c.start > 0
           /\ ~Blank(CharAt(source, c.start - 1))
           /\ Contains(c.text, LF)

---------------------------------------------------------------------------
(* Properties of the flag index, checked under SpecFlags *)

Indexed == pc \in {"index", "answer"}

\* The number of '-' a text starts with.
RECURSIVE RefLeadingDashes(_)
RefLeadingDashes(s) ==
    IF Len(s) > 0 /\ s[1] = "-" THEN 1 + RefLeadingDashes(Tail(s)) ELSE 0

\* The positions of the list whose flag has value v in the given field.
RefPositions(field, v) ==
    {i \in DOMAIN flags :
        IF field = "name" THEN flags[i].name = v ELSE flags[i].abbreviation = <<v>>}

RefIsLast(field, v, i) ==
    i \in RefPositions(field, v) /\ \A j \in RefPositions(field, v) : j <= i

\* The flag registered last under v, if any.
RefLastFlag(field, v) ==
    IF RefPositions(field, v) = {} THEN None
    ELSE Some(flags[CHOOSE i \in DOMAIN flags : RefIsLast(field, v, i)])

RefLookup(s) ==
    LET s1   == IF Len(s) > 0 /\ s[Len(s)] = "=" THEN SubSeq(s, 1, Len(s) - 1) ELSE s
        n    == RefLeadingDashes(s1)
        body == SubSeq(s1, n + 1, Len(s1))
    IN  IF n = 2 THEN RefLastFlag("name", body)
        ELSE IF n = 1 THEN RefLastFlag("abbreviation", body)
        ELSE None

ShortForm(f) == <<"-">> \o f.abbreviation[1]

LongForm(f) == <<"-", "-">> \o f.name

\* A text that neither starts with '-' nor ends with '=': what an invocation
\* adds around it is what the lookup strips again.
RefPlain(v) == Len(v) > 0 /\ v[1] # "-" /\ v[Len(v)] # "="

\* C10, as claimed: whatever the flag list, the short form '-a' and the long
\* form '--n' of a flag return the same flag (stated for the names and
\* abbreviations without a '-' in front or a '=' behind, for which the two
\* forms are what a user would write).
C10_ShortAndLongFormAgree ==
    Indexed => \A i \in DOMAIN flags :
                   ( /\ flags[i].abbreviation # <<>>
                     /\ RefPlain(flags[i].name)
                     /\ RefPlain(flags[i].abbreviation[1]) )
                   => get_by_invocation(ShortForm(flags[i]))
                          = get_by_invocation(LongForm(flags[i]))

\* C10, amended: get_by_invocation(s) drops one trailing '=' from s; with
\* exactly two leading dashes it returns the flag registered last under that
\* long name, with exactly one the flag registered last under that
\* abbreviation, with none or with three or more it returns none.  The short
\* and the long form of a flag both return that flag when no later flag of the
\* list has its name or its abbreviation and neither of the two starts with
\* '-' or ends with '='.  Every index in a lookup map is a position of the
\* list that holds a flag with that key, so the lookup never panics.
C10_LookupReturnsLastRegistered ==
    Indexed =>
        /\ pc = "answer" => found = RefLookup(query) /\ ~found.panicked
        /\ \A k \in DOMAIN flags_by_name :
               /\ flags_by_name[k] \in 0..(Len(flags) - 1)
               /\ flags[flags_by_name[k] + 1].name = k
        /\ \A k \in DOMAIN flags_by_abbreviation :
               /\ flags_by_abbreviation[k] \in 0..(Len(flags) - 1)
               /\ flags[flags_by_abbreviation[k] + 1].abbreviation = <<k>>
        /\ \A i \in DOMAIN flags :
               ( /\ flags[i].abbreviation # <<>>
                 /\ RefIsLast("name", flags[i].name, i)
                 /\ RefIsLast("abbreviation", flags[i].abbreviation[1], i)
                 /\ RefPlain(flags[i].name)
                 /\ RefPlain(flags[i].abbreviation[1]) )
               => /\ get_by_invocation(ShortForm(flags[i])) = Some(flags[i])
                  /\ get_by_invocation(LongForm(flags[i])) = Some(flags[i])

\* A long-form lookup with a trailing '=' that found the second of two flags
\* registered under the same name.
C10_Witness ==
    /\ pc = "answer"
    /\ Len(flags) = 2
    /\ flags[1].name = flags[2].name
    /\ flags[1] # flags[2]
    /\ has_prefix(query, <<"-", "-">>)
    /\ query[Len(query)] = "="
    /\ found = Some(flags[2])

============================================================================
